---- MODULE Spec2Model ----
(***************************************************************************)
(* Trade Buddy: the SQLite ledger (db.py) and the daily, weekly and        *)
(* monthly jobs (daily_job.py, weekly_job.py, monthly_job.py) that roll    *)
(* raw trade files up into daily, weekly and monthly reports.              *)
(*                                                                         *)
(* A run of a job is a process; every statement of a job that touches the  *)
(* ledger, Google Drive or SMTP is one step of it.  Spec runs the jobs one  *)
(* after the other, and any step may raise; SpecOverlap lets two runs be   *)
(* in flight at once.                                                      *)
(***************************************************************************)
EXTENDS Integers, Sequences, FiniteSets, TLC

\* ------------------------------------------------------------------ bounds
\* Runs (of any job) that are started in one behaviour.
MaxRuns == 4
\* Times a run is started while another run is still in flight.
MaxOverlaps == 1
\* Times the clock advances.
MaxTicks == 2
\* Steps that raise in one behaviour.
MaxFailures == 1

\* Python None / SQL NULL for an id or a timestamp (ids and timestamps are > 0).
None == 0

\* ------------------------------------------------- datetime.date arithmetic
\* A date is <<year, month, day>>; an ISO date string "YYYY-MM-DD" is the
\* numeral YYYYMMDD its digits spell.

IsLeap(y) == (y % 4 = 0) /\ ((y % 100 # 0) \/ (y % 400 = 0))

DaysInMonth(y, m) ==
    IF m = 2 THEN (IF IsLeap(y) THEN 29 ELSE 28)
    ELSE IF m \in {4, 6, 9, 11} THEN 30 ELSE 31

DaysBeforeYear(y) ==
    LET p == y - 1 IN p * 365 + (p \div 4) - (p \div 100) + (p \div 400)

RECURSIVE DaysBeforeMonth(_, _)
DaysBeforeMonth(y, m) ==
    IF m <= 1 THEN 0 ELSE DaysBeforeMonth(y, m - 1) + DaysInMonth(y, m - 1)

\* dt.date(year, month, day) raises ValueError outside these ranges.
ValidDate(y, m, d) ==
    /\ y >= 1 /\ y <= 9999
    /\ m >= 1 /\ m <= 12
    /\ d >= 1 /\ d <= DaysInMonth(y, m)

\* date.toordinal()
ToOrdinal(dte) == DaysBeforeYear(dte[1]) + DaysBeforeMonth(dte[1], dte[2]) + dte[3]

RECURSIVE MonthOfDayInYear(_, _, _)
MonthOfDayInYear(y, m, n) ==
    IF n <= DaysInMonth(y, m) THEN <<y, m, n>>
    ELSE MonthOfDayInYear(y, m + 1, n - DaysInMonth(y, m))

\* date.fromordinal(n): the 400/100/4/1-year cycles, then the month.
FromOrdinal(n) ==
    LET n0   == n - 1
        n400 == n0 \div 146097
        r400 == n0 % 146097
        n100 == r400 \div 36524
        r100 == r400 % 36524
        n4   == r100 \div 1461
        r4   == r100 % 1461
        n1   == r4 \div 365
        r1   == r4 % 365
        year == n400 * 400 + n100 * 100 + n4 * 4 + n1 + 1
    IN  IF n1 = 4 \/ n100 = 4 THEN <<year - 1, 12, 31>>
        ELSE MonthOfDayInYear(year, 1, r1 + 1)

\* date + timedelta(days = k)
AddDays(dte, k) == FromOrdinal(ToOrdinal(dte) + k)

\* date.isoformat(), date.fromisoformat()
isoformat(dte) == dte[1] * 10000 + dte[2] * 100 + dte[3]
fromisoformat(s) == <<s \div 10000, (s \div 100) % 100, s % 100>>

\* The ordinal of the Monday of ISO week 1 of a year.
IsoWeek1Monday(y) ==
    LET firstday     == ToOrdinal(<<y, 1, 1>>)
        firstweekday == (firstday + 6) % 7
        week1monday  == firstday - firstweekday
    IN  IF firstweekday > 3 THEN week1monday + 7 ELSE week1monday

\* date.isocalendar(): <<iso year, iso week, iso weekday>>
isocalendar(dte) ==
    LET y   == dte[1]
        ord == ToOrdinal(dte)
        w1  == IsoWeek1Monday(y)
        wk  == IF ord >= w1 THEN (ord - w1) \div 7 ELSE -1
    IN  IF wk < 0
        THEN LET p == IsoWeek1Monday(y - 1)
             IN  <<y - 1, ((ord - p) \div 7) + 1, ((ord - p) % 7) + 1>>
        ELSE IF wk >= 52 /\ ord >= IsoWeek1Monday(y + 1)
        THEN <<y + 1, 1, ((ord - IsoWeek1Monday(y + 1)) % 7) + 1>>
        ELSE <<y, wk + 1, ((ord - w1) % 7) + 1>>

\* date.fromisocalendar(year, week, day)
fromisocalendar(y, w, d) == FromOrdinal(IsoWeek1Monday(y) + (w - 1) * 7 + (d - 1))

\* ------------------------------------------------------ the raw trades folder
\* What drive_client.list_files_in_folder returns for RAW_TRADES_FOLDER_ID:
\* two trade files of the same day, one whose name carries no date, one file
\* that is no CSV.  File ids are 1..Len(RawFolder); uploads get later ids.
RawFolder ==
    << [id |-> 1, name |-> "trades_02_27_2024.csv", modifiedTime |-> "2024-02-28T01:10:00Z"],
       [id |-> 2, name |-> "AM_02_27_2024.CSV",     modifiedTime |-> "2024-02-27T18:00:00Z"],
       [id |-> 3, name |-> "export.csv",            modifiedTime |-> "2024-02-20T10:00:00Z"],
       [id |-> 4, name |-> "notes.txt",             modifiedTime |-> "2024-02-27T09:00:00Z"] >>

\* The characters of the strings above (TLC cannot take a string apart).
Chars(s) ==
    CASE s = "trades_02_27_2024.csv" ->
           <<"t","r","a","d","e","s","_","0","2","_","2","7","_","2","0","2","4",".","c","s","v">>
      [] s = "AM_02_27_2024.CSV" ->
           <<"A","M","_","0","2","_","2","7","_","2","0","2","4",".","C","S","V">>
      [] s = "export.csv" -> <<"e","x","p","o","r","t",".","c","s","v">>
      [] s = "notes.txt" -> <<"n","o","t","e","s",".","t","x","t">>
      [] s = "trades_13_45_2024.csv" ->
           <<"t","r","a","d","e","s","_","1","3","_","4","5","_","2","0","2","4",".","c","s","v">>
      [] s = "trades_02_30_2024.csv" ->
           <<"t","r","a","d","e","s","_","0","2","_","3","0","_","2","0","2","4",".","c","s","v">>
      [] s = "v2_03_14_2024.csv" ->
           <<"v","2","_","0","3","_","1","4","_","2","0","2","4",".","c","s","v">>
      [] s = "2024-02-28T01:10:00Z" ->
           <<"2","0","2","4","-","0","2","-","2","8","T","0","1",":","1","0",":","0","0","Z">>
      [] s = "2024-02-27T18:00:00Z" ->
           <<"2","0","2","4","-","0","2","-","2","7","T","1","8",":","0","0",":","0","0","Z">>
      [] s = "2024-02-20T10:00:00Z" ->
           <<"2","0","2","4","-","0","2","-","2","0","T","1","0",":","0","0",":","0","0","Z">>
      [] s = "2024-02-27T09:00:00Z" ->
           <<"2","0","2","4","-","0","2","-","2","7","T","0","9",":","0","0",":","0","0","Z">>
      [] OTHER -> <<>>

IsDigit(c) == c \in {"0","1","2","3","4","5","6","7","8","9"}

DigitVal(c) ==
    CASE c = "0" -> 0 [] c = "1" -> 1 [] c = "2" -> 2 [] c = "3" -> 3 [] c = "4" -> 4
      [] c = "5" -> 5 [] c = "6" -> 6 [] c = "7" -> 7 [] c = "8" -> 8 [] c = "9" -> 9

\* int() of the digits cs[i..j]
RECURSIVE IntOf(_, _, _)
IntOf(cs, i, j) == IF j < i THEN 0 ELSE IntOf(cs, i, j - 1) * 10 + DigitVal(cs[j])

\* str.lower() of one character, for the letters of ".csv"
Lower(c) == CASE c = "C" -> "c" [] c = "S" -> "s" [] c = "V" -> "v" [] OTHER -> c

\* f.get("name", "").lower().endswith(".csv")
IsCsv(name) ==
    LET cs == Chars(name)
        n  == Len(cs)
    IN  /\ n >= 4
        /\ <<Lower(cs[n - 3]), Lower(cs[n - 2]), Lower(cs[n - 1]), Lower(cs[n])>>
             = <<".", "c", "s", "v">>

csv_files == SelectSeq(RawFolder, LAMBDA f : IsCsv(f.name))

\* Whether (\d{2})_(\d{2})_(\d{4}) matches cs at position i.
MatchesAt(cs, i) ==
    /\ i + 9 <= Len(cs)
    /\ \A k \in {0, 1, 3, 4, 6, 7, 8, 9} : IsDigit(cs[i + k])
    /\ cs[i + 2] = "_" /\ cs[i + 5] = "_"

\* parse_trade_date: [ok |-> FALSE] stands for the ValueError of dt.date(...)
\* or of fromisoformat(...).
parse_trade_date(file_name, modified_time, today) ==
    LET cs   == Chars(file_name)
        hits == {i \in 1..Len(cs) : MatchesAt(cs, i)}
    IN  IF hits # {}
        THEN LET i     == CHOOSE h \in hits : \A g \in hits : h <= g
                 month == IntOf(cs, i, i + 1)
                 day   == IntOf(cs, i + 3, i + 4)
                 year  == IntOf(cs, i + 6, i + 9)
             IN  [ok |-> ValidDate(year, month, day), date |-> <<year, month, day>>]
        ELSE IF modified_time # ""
        THEN LET ms == Chars(modified_time)
                 wf == /\ Len(ms) >= 10
                       /\ \A k \in {1, 2, 3, 4, 6, 7, 9, 10} : IsDigit(ms[k])
                       /\ ms[5] = "-" /\ ms[8] = "-"
                 y  == IntOf(ms, 1, 4)
                 m  == IntOf(ms, 6, 7)
                 d  == IntOf(ms, 9, 10)
             IN  IF wf THEN [ok |-> ValidDate(y, m, d), date |-> <<y, m, d>>]
                 ELSE [ok |-> FALSE, date |-> <<1, 1, 1>>]
        ELSE [ok |-> TRUE, date |-> today]

\* ----------------------------------------------------------------- the ledger
\* A table is the sequence of its rows in insertion order; rows are never
\* deleted, so the INTEGER PRIMARY KEY id of a row is its position.

HasRow(tbl, drive_file_id) == \E i \in 1..Len(tbl) : tbl[i].drive_file_id = drive_file_id

RowOf(tbl, drive_file_id) == CHOOSE i \in 1..Len(tbl) : tbl[i].drive_file_id = drive_file_id

\* COALESCE(a, b)
COALESCE(a, b) == IF a # None THEN a ELSE b

\* The ON CONFLICT(drive_file_id) DO UPDATE SET clause of record_raw_file.
raw_file_on_conflict(old, excluded) ==
    [old EXCEPT !.file_name = excluded.file_name,
                !.trade_date = excluded.trade_date,
                !.daily_report_drive_id = excluded.daily_report_drive_id,
                !.processed_at = COALESCE(excluded.processed_at, old.processed_at)]

record_raw_file(tbl, drive_file_id, file_name, trade_date, daily_report_drive_id, utcnow) ==
    LET processed_at == IF daily_report_drive_id # None THEN utcnow ELSE None
        excluded == [id |-> Len(tbl) + 1,
                     drive_file_id |-> drive_file_id,
                     file_name |-> file_name,
                     trade_date |-> trade_date,
                     daily_report_drive_id |-> daily_report_drive_id,
                     processed_at |-> processed_at]
    IN  IF HasRow(tbl, drive_file_id)
        THEN LET i == RowOf(tbl, drive_file_id)
             IN  [tbl EXCEPT ![i] = raw_file_on_conflict(tbl[i], excluded)]
        ELSE Append(tbl, excluded)

\* Mutant: the UPDATE is not issued.
mark_raw_file_processed_noop(tbl, drive_file_id, daily_report_drive_id, utcnow) == tbl

\* UPDATE ... WHERE drive_file_id = ?: no row matches, nothing changes.
mark_raw_file_processed(tbl, drive_file_id, daily_report_drive_id, utcnow) ==
    [i \in 1..Len(tbl) |->
        IF tbl[i].drive_file_id = drive_file_id
        THEN [tbl[i] EXCEPT !.daily_report_drive_id = daily_report_drive_id,
                            !.processed_at = utcnow]
        ELSE tbl[i]]

\* Mutant: the stored reference is not looked at.
needs_processing_always(tbl, drive_file_id) == TRUE

\* Mutant: only a file without a row needs processing.
needs_processing_unrecorded(tbl, drive_file_id) == ~HasRow(tbl, drive_file_id)

raw_file_needs_processing(tbl, drive_file_id) ==
    IF ~HasRow(tbl, drive_file_id) THEN TRUE
    ELSE tbl[RowOf(tbl, drive_file_id)].daily_report_drive_id = None

\* Mutant: the upsert conflicts on the file name.
conflict_on_file_name(row, drive_file_id, file_name) == row.file_name = file_name

\* The conflict target of the daily_reports upsert.
daily_report_conflict(row, drive_file_id, file_name) == row.drive_file_id = drive_file_id

\* Mutant: INSERT OR REPLACE, the row is written anew.
record_daily_report_replace(tbl, drive_file_id, file_name, report_date) ==
    IF HasRow(tbl, drive_file_id)
    THEN [tbl EXCEPT ![RowOf(tbl, drive_file_id)] =
              [id |-> @.id, drive_file_id |-> drive_file_id, file_name |-> file_name,
               report_date |-> report_date, included_in_weekly |-> 0]]
    ELSE Append(tbl, [id |-> Len(tbl) + 1, drive_file_id |-> drive_file_id,
                      file_name |-> file_name, report_date |-> report_date,
                      included_in_weekly |-> 0])

record_daily_report(tbl, drive_file_id, file_name, report_date) ==
    LET hit == {i \in 1..Len(tbl) : daily_report_conflict(tbl[i], drive_file_id, file_name)}
    IN  IF hit # {}
        THEN [i \in 1..Len(tbl) |->
                IF i \in hit
                THEN [tbl[i] EXCEPT !.file_name = file_name, !.report_date = report_date]
                ELSE tbl[i]]
        ELSE Append(tbl, [id |-> Len(tbl) + 1,
                          drive_file_id |-> drive_file_id,
                          file_name |-> file_name,
                          report_date |-> report_date,
                          included_in_weekly |-> 0])

\* Mutant: the year of the row is not compared.
daily_reports_for_week_number(tbl, iso_year, iso_week) ==
    SelectSeq(tbl, LAMBDA row :
        /\ row.included_in_weekly = 0
        /\ isocalendar(fromisoformat(row.report_date))[2] = iso_week)

get_daily_reports_for_week(tbl, iso_year, iso_week) ==
    SelectSeq(tbl, LAMBDA row :
        /\ row.included_in_weekly = 0
        /\ LET iso == isocalendar(fromisoformat(row.report_date))
           IN  iso[1] = iso_year /\ iso[2] = iso_week)

\* Mutant: the UPDATE has lost its WHERE clause.
AnyRow(row, report_ids) == TRUE

\* The rows an UPDATE ... WHERE id = ? of the batch touches.
IdMatches(row, report_ids) == row.id \in report_ids

\* Mutant: the UPDATE inverts the flag.
mark_daily_reports_toggle(tbl, report_ids) ==
    IF report_ids = {} THEN tbl
    ELSE [i \in 1..Len(tbl) |->
            IF IdMatches(tbl[i], report_ids)
            THEN [tbl[i] EXCEPT !.included_in_weekly = 1 - @]
            ELSE tbl[i]]

mark_daily_reports_included(tbl, report_ids) ==
    IF report_ids = {} THEN tbl
    ELSE [i \in 1..Len(tbl) |->
            IF IdMatches(tbl[i], report_ids)
            THEN [tbl[i] EXCEPT !.included_in_weekly = 1]
            ELSE tbl[i]]

\* Mutant: the weekly upsert is keyed by the ISO week, one row per week.
record_weekly_report_per_week(tbl, drive_file_id, file_name, iso_year, iso_week, week_start_date, week_end_date) ==
    LET hit == {i \in 1..Len(tbl) : tbl[i].iso_year = iso_year /\ tbl[i].iso_week = iso_week}
    IN  IF hit # {}
        THEN [i \in 1..Len(tbl) |->
                IF i \in hit
                THEN [tbl[i] EXCEPT !.file_name = file_name,
                                    !.week_start_date = week_start_date,
                                    !.week_end_date = week_end_date]
                ELSE tbl[i]]
        ELSE Append(tbl, [id |-> Len(tbl) + 1,
                          drive_file_id |-> drive_file_id,
                          file_name |-> file_name,
                          iso_year |-> iso_year,
                          iso_week |-> iso_week,
                          week_start_date |-> week_start_date,
                          week_end_date |-> week_end_date,
                          included_in_monthly |-> 0])

\* Mutant: the weekly job records its artifact as already included.
record_weekly_report_included(tbl, drive_file_id, file_name, iso_year, iso_week, week_start_date, week_end_date) ==
    IF HasRow(tbl, drive_file_id)
    THEN LET i == RowOf(tbl, drive_file_id)
         IN  [tbl EXCEPT ![i] = [@ EXCEPT !.file_name = file_name,
                                          !.iso_year = iso_year,
                                          !.iso_week = iso_week,
                                          !.week_start_date = week_start_date,
                                          !.week_end_date = week_end_date]]
    ELSE Append(tbl, [id |-> Len(tbl) + 1,
                      drive_file_id |-> drive_file_id,
                      file_name |-> file_name,
                      iso_year |-> iso_year,
                      iso_week |-> iso_week,
                      week_start_date |-> week_start_date,
                      week_end_date |-> week_end_date,
                      included_in_monthly |-> 1])

record_weekly_report(tbl, drive_file_id, file_name, iso_year, iso_week, week_start_date, week_end_date) ==
    IF HasRow(tbl, drive_file_id)
    THEN LET i == RowOf(tbl, drive_file_id)
         IN  [tbl EXCEPT ![i] = [@ EXCEPT !.file_name = file_name,
                                          !.iso_year = iso_year,
                                          !.iso_week = iso_week,
                                          !.week_start_date = week_start_date,
                                          !.week_end_date = week_end_date]]
    ELSE Append(tbl, [id |-> Len(tbl) + 1,
                      drive_file_id |-> drive_file_id,
                      file_name |-> file_name,
                      iso_year |-> iso_year,
                      iso_week |-> iso_week,
                      week_start_date |-> week_start_date,
                      week_end_date |-> week_end_date,
                      included_in_monthly |-> 0])

\* The first and last day of a calendar month, as get_weekly_reports_for_month
\* computes them.
month_bounds(year, month) ==
    LET month_start == <<year, month, 1>>
        month_end   == IF month = 12
                       THEN AddDays(<<year + 1, 1, 1>>, -1)
                       ELSE AddDays(<<year, month + 1, 1>>, -1)
    IN  <<month_start, month_end>>

\* Mutant: only the weeks that lie wholly inside the month.
weekly_reports_within_month(tbl, year, month) ==
    LET mb == month_bounds(year, month)
    IN  SelectSeq(tbl, LAMBDA row :
            /\ row.included_in_monthly = 0
            /\ ToOrdinal(fromisoformat(row.week_start_date)) >= ToOrdinal(mb[1])
            /\ ToOrdinal(fromisoformat(row.week_end_date)) <= ToOrdinal(mb[2]))

get_weekly_reports_for_month(tbl, year, month) ==
    LET mb == month_bounds(year, month)
    IN  SelectSeq(tbl, LAMBDA row :
            /\ row.included_in_monthly = 0
            /\ ToOrdinal(fromisoformat(row.week_start_date)) <= ToOrdinal(mb[2])
            /\ ToOrdinal(fromisoformat(row.week_end_date)) >= ToOrdinal(mb[1]))

\* Mutant: the flags are not written.
mark_weekly_reports_noop(tbl, report_ids) == tbl

mark_weekly_reports_included(tbl, report_ids) ==
    IF report_ids = {} THEN tbl
    ELSE [i \in 1..Len(tbl) |->
            IF IdMatches(tbl[i], report_ids)
            THEN [tbl[i] EXCEPT !.included_in_monthly = 1]
            ELSE tbl[i]]

\* Mutant: a plain INSERT on a table without the UNIQUE constraint.
record_monthly_report_insert(tbl, drive_file_id, file_name, year, month, month_start, month_end) ==
    Append(tbl, [id |-> Len(tbl) + 1,
                 drive_file_id |-> drive_file_id,
                 file_name |-> file_name,
                 year |-> year,
                 month |-> month,
                 month_start |-> month_start,
                 month_end |-> month_end])

record_monthly_report(tbl, drive_file_id, file_name, year, month, month_start, month_end) ==
    IF HasRow(tbl, drive_file_id)
    THEN LET i == RowOf(tbl, drive_file_id)
         IN  [tbl EXCEPT ![i] = [@ EXCEPT !.file_name = file_name,
                                          !.year = year,
                                          !.month = month,
                                          !.month_start = month_start,
                                          !.month_end = month_end]]
    ELSE Append(tbl, [id |-> Len(tbl) + 1,
                      drive_file_id |-> drive_file_id,
                      file_name |-> file_name,
                      year |-> year,
                      month |-> month,
                      month_start |-> month_start,
                      month_end |-> month_end])

\* ------------------------------------------------- the generation backend
\* A JSON object is a record, an array a sequence, a string the sequence of
\* its characters; the empty object has no key.
EmptyDict == [k \in {} |-> <<>>]

\* dict.get(key, default)
Get(d, key, default) == IF key \in DOMAIN d THEN d[key] ELSE default

\* The characters str.strip() removes, as far as the responses below use them.
IsSpace(c) == c \in {" ", "\n", "\t"}

\* str.strip()
strip(cs) ==
    LET keep == {i \in 1..Len(cs) : ~IsSpace(cs[i])}
    IN  IF keep = {} THEN <<>>
        ELSE SubSeq(cs, CHOOSE i \in keep : \A j \in keep : i <= j,
                        CHOOSE i \in keep : \A j \in keep : i >= j)

\* GeminiClient._call_gemini from the HTTP response on: the outcome ("ok" or
\* the exception raised) and the text returned.
_call_gemini(response) ==
    IF response.status >= 400
    THEN [outcome |-> "HTTPError", text |-> <<>>]
    ELSE LET data == response.json
             candidates == Get(data, "candidates", <<>>)
         IN  IF candidates = <<>>
             THEN [outcome |-> "RuntimeError", text |-> <<>>]
             ELSE LET parts == Get(Get(candidates[1], "content", EmptyDict),
                                   "parts", <<EmptyDict>>)
                  IN  IF parts = <<>>
                      THEN [outcome |-> "IndexError", text |-> <<>>]
                      ELSE LET text == Get(parts[1], "text", <<>>)
                           IN  IF text = <<>>
                               THEN [outcome |-> "RuntimeError", text |-> <<>>]
                               ELSE [outcome |-> "ok", text |-> strip(text)]

\* ------------------------------------------------------- boundary calculator
\* Mutant: the calendar year stands in for the ISO year.
target_week_calendar_year(reference) == <<reference[1], isocalendar(reference)[2]>>

\* Mutant: the week before the one the reference day lies in.
target_week_previous(reference) ==
    LET iso == isocalendar(AddDays(reference, -7)) IN <<iso[1], iso[2]>>

determine_target_week(reference) ==
    LET iso == isocalendar(reference) IN <<iso[1], iso[2]>>

\* Mutant: the month before is taken to begin 30 days before this one.
previous_month_thirty_days(reference) ==
    LET first_this_month == <<reference[1], reference[2], 1>>
    IN  <<AddDays(first_this_month, -30), AddDays(first_this_month, -1)>>

previous_month(reference) ==
    LET first_this_month == <<reference[1], reference[2], 1>>
        last_prev_month  == AddDays(first_this_month, -1)
        first_prev_month == <<last_prev_month[1], last_prev_month[2], 1>>
    IN  <<first_prev_month, last_prev_month>>


\* -------------------------------------------------------------------- state
VARIABLES
    raw_files,        \* table raw_files
    daily_reports,    \* table daily_reports
    weekly_reports,   \* table weekly_reports
    monthly_reports,  \* table monthly_reports
    drive,            \* the files uploaded to Drive, in upload order
    outbox,           \* the emails handed to SMTP, in order
    today,            \* dt.date.today(); also the date of utcnow()
    ticks,            \* times the clock has advanced
    failures,         \* steps that have raised
    started,          \* runs started
    overlaps,         \* runs started while another was in flight
    run,              \* the state of each process
    call              \* the last call a client of the modules made, with its outcome

vars == <<raw_files, daily_reports, weekly_reports, monthly_reports, drive, outbox,
          today, ticks, failures, started, overlaps, run, call>>

ledger == <<raw_files, daily_reports, weekly_reports, monthly_reports>>

\* Two processes per job, so that two runs of one job can overlap.
Procs == {"d1", "d2", "w1", "w2", "m1", "m2"}
SeqProcs == {"d1", "w1", "m1"}

Stage(p) == IF p \in {"d1", "d2"} THEN "daily"
            ELSE IF p \in {"w1", "w2"} THEN "weekly" ELSE "monthly"

\* The first day the jobs run on: Tuesday of ISO week 9 of 2024.
StartDate == <<2024, 2, 27>>

\* A process before its first run; every run starts from these locals.
\*   idx: position in csv_files; trade_date, upload_id, rows, target:
\*   the locals of process_file / main; tried, failed: the files the log
\*   names ("Processing raw file", "Failed to process file"); pre: the
\*   ledger as the run found it (history, read by no step).
Fresh ==
    [pc |-> "idle", status |-> "none", idx |-> 0, trade_date |-> <<1, 1, 1>>,
     upload_id |-> None, rows |-> <<>>, target |-> <<>>,
     tried |-> {}, failed |-> {}, pre |-> <<>>]

\* A process is in flight from its start until it has left main.
Active(p) == run[p].pc # "idle"

\* The second process of a job only ever overlaps the first.
MayStart(p) == p \in {"d2", "w2", "m2"} => Active(IF p = "d2" THEN "d1" ELSE IF p = "w2" THEN "w1" ELSE "m1")

NumActive == Cardinality({p \in Procs : Active(p)})

\* A run may start while fewer than limit runs are in flight; a start beside
\* a run in flight is an overlap, and MaxOverlaps of them are looked at for
\* each run that may be in flight beside another.
Admit(limit) ==
    /\ NumActive < limit
    /\ started < MaxRuns
    /\ started' = started + 1
    /\ IF NumActive > 0
       THEN overlaps < MaxOverlaps * (limit - 1) /\ overlaps' = overlaps + 1
       ELSE overlaps' = overlaps

\* The Drive id the next upload gets.
NextDriveId == Len(RawFolder) + Len(drive) + 1

\* The ids of rows, as in [row["id"] for row in rows].
RowIds(rows) == {rows[i].id : i \in 1..Len(rows)}

DriveIds(rows) == [i \in 1..Len(rows) |-> rows[i].drive_file_id]

\* What the report text a run generates is made from: the raw file of the
\* item (daily), or the downloaded reports of the collected rows, in order.
report_text(p) ==
    IF Stage(p) = "daily"
    THEN [kind |-> "daily", of |-> <<csv_files[run[p].idx].id>>]
    ELSE [kind |-> Stage(p), of |-> DriveIds(run[p].rows)]

\* drive_client.upload_file
upload_file(files, folder_id, file_name, text) ==
    Append(files, [id |-> Len(RawFolder) + Len(files) + 1, folder |-> folder_id,
                   name |-> file_name, text |-> text])

Flagged(tbl, col) == {i \in 1..Len(tbl) : tbl[i][col] = 1}

\* No call made yet.  n counts the calls; outcome is "ok" when the call
\* returned and the name of the exception when it raised.
NoCall == [n |-> 0, op |-> "none", args |-> <<>>, outcome |-> "none", result |-> <<>>]

Init ==
    /\ raw_files = <<>>
    /\ daily_reports = <<>>
    /\ weekly_reports = <<>>
    /\ monthly_reports = <<>>
    /\ drive = <<>>
    /\ outbox = <<>>
    /\ today = StartDate
    /\ ticks = 0
    /\ failures = 0
    /\ started = 0
    /\ overlaps = 0
    /\ run = [p \in Procs |-> Fresh]
    /\ call = NoCall

\* The clock, sampled between runs every four weeks (a run takes minutes).
Tick ==
    /\ ticks < MaxTicks
    /\ NumActive = 0
    /\ ticks' = ticks + 1
    /\ today' = AddDays(today, 28)
    /\ UNCHANGED <<call, ledger, drive, outbox, failures, started, overlaps, run>>

\* ---------------------------------------------------------------- daily job
StartDaily(p, limit) ==
    /\ Stage(p) = "daily"
    /\ ~Active(p)
    /\ MayStart(p)
    /\ Admit(limit)
    /\ run' = [run EXCEPT ![p] = [Fresh EXCEPT !.pc = "list", !.status = "running"]]
    /\ UNCHANGED <<call, ledger, drive, outbox, today, ticks, failures>>

\* files = drive_client.list_files_in_folder(...); csv_files = [...]
DailyList(p) ==
    /\ Stage(p) = "daily"
    /\ run[p].pc = "list"
    /\ run' = [run EXCEPT ![p].pc = "check", ![p].idx = 1]
    /\ UNCHANGED <<call, ledger, drive, outbox, today, ticks, failures, started, overlaps>>

\* The head of the for loop: the next file, skipped unless it needs processing.
DailyCheck(p) ==
    /\ Stage(p) = "daily"
    /\ run[p].pc = "check"
    /\ LET i == run[p].idx
       IN  IF i > Len(csv_files)
           THEN run' = [run EXCEPT ![p].pc = "done", ![p].status = "ok"]
           ELSE IF ~raw_file_needs_processing(raw_files, csv_files[i].id)
           THEN run' = [run EXCEPT ![p].idx = i + 1]
           ELSE run' = [run EXCEPT ![p].pc = "record_raw", ![p].tried = @ \cup {csv_files[i].id}]
    /\ UNCHANGED <<call, ledger, drive, outbox, today, ticks, failures, started, overlaps>>

\* Mutant: the exception of an item is not caught and ends the run.
on_item_exception_abort(r) ==
    [r EXCEPT !.pc = "done", !.status = "error", !.failed = @ \cup {csv_files[r.idx].id}]

\* except Exception: LOGGER.exception(...); the loop goes on.
on_item_exception(r) ==
    [r EXCEPT !.pc = "check", !.idx = r.idx + 1,
              !.failed = @ \cup {csv_files[r.idx].id}]

\* process_file, to db.record_raw_file(...)
DailyRecordRaw(p) ==
    /\ Stage(p) = "daily"
    /\ run[p].pc = "record_raw"
    /\ LET f == csv_files[run[p].idx]
           parsed == parse_trade_date(f.name, f.modifiedTime, today)
       IN  IF ~parsed.ok
           THEN /\ run' = [run EXCEPT ![p] = on_item_exception(run[p])]
                /\ UNCHANGED raw_files
           ELSE /\ raw_files' = record_raw_file(raw_files, f.id, f.name,
                                                isoformat(parsed.date), None, isoformat(today))
                /\ run' = [run EXCEPT ![p].pc = "upload", ![p].trade_date = parsed.date]
    /\ UNCHANGED <<call, daily_reports, weekly_reports, monthly_reports, drive, outbox,
                   today, ticks, failures, started, overlaps>>

\* download_file, read_csv, summarize_trades, generate_daily_report,
\* render_html_report, the two write_text, then upload_file: the report text
\* is made and uploaded; the files written locally are read by no later run.
DailyUpload(p) ==
    /\ Stage(p) = "daily"
    /\ run[p].pc = "upload"
    /\ drive' = upload_file(drive, "DAILY_REPORTS_FOLDER_ID",
                            <<"daily_report", isoformat(run[p].trade_date)>>, report_text(p))
    /\ run' = [run EXCEPT ![p].pc = "mark", ![p].upload_id = NextDriveId]
    /\ UNCHANGED <<call, ledger, outbox, today, ticks, failures, started, overlaps>>

DailyMark(p) ==
    /\ Stage(p) = "daily"
    /\ run[p].pc = "mark"
    /\ raw_files' = mark_raw_file_processed(raw_files, csv_files[run[p].idx].id,
                                            run[p].upload_id, isoformat(today))
    /\ run' = [run EXCEPT ![p].pc = "record_daily"]
    /\ UNCHANGED <<call, daily_reports, weekly_reports, monthly_reports, drive, outbox,
                   today, ticks, failures, started, overlaps>>

\* The report_date process_file hands to record_daily_report.
daily_report_date(r) == isoformat(r.trade_date)

DailyRecordDaily(p) ==
    /\ Stage(p) = "daily"
    /\ run[p].pc = "record_daily"
    /\ daily_reports' = record_daily_report(daily_reports, run[p].upload_id,
                                            <<"daily_report", isoformat(run[p].trade_date)>>,
                                            daily_report_date(run[p]))
    /\ run' = [run EXCEPT ![p].pc = "email"]
    /\ UNCHANGED <<call, raw_files, weekly_reports, monthly_reports, drive, outbox,
                   today, ticks, failures, started, overlaps>>

DailyEmail(p) ==
    /\ Stage(p) = "daily"
    /\ run[p].pc = "email"
    /\ outbox' = Append(outbox, [subject |-> <<"Daily Trade Report", isoformat(run[p].trade_date)>>,
                                 body |-> report_text(p)])
    /\ run' = [run EXCEPT ![p].pc = "check", ![p].idx = @ + 1]
    /\ UNCHANGED <<call, ledger, drive, today, ticks, failures, started, overlaps>>

\* A statement of process_file raises (Drive, Gemini, pandas, the file system,
\* SQLite or SMTP); a write that raises is rolled back.
DailyItemFails(p) ==
    /\ Stage(p) = "daily"
    /\ run[p].pc \in {"record_raw", "upload", "mark", "record_daily", "email"}
    /\ failures < MaxFailures
    /\ failures' = failures + 1
    /\ run' = [run EXCEPT ![p] = on_item_exception(run[p])]
    /\ UNCHANGED <<call, ledger, drive, outbox, today, ticks, started, overlaps>>

\* The listing raises: outside the inner try, so the exception leaves main
\* through finally.  (The needs-processing query, a read of the local SQLite
\* file, is taken not to raise.)
DailyAborts(p) ==
    /\ Stage(p) = "daily"
    /\ run[p].pc = "list"
    /\ failures < MaxFailures
    /\ failures' = failures + 1
    /\ run' = [run EXCEPT ![p].pc = "done", ![p].status = "error"]
    /\ UNCHANGED <<call, ledger, drive, outbox, today, ticks, started, overlaps>>


\* --------------------------------------------------------------- weekly job
\* iso_year, iso_week, week_start and week_end as main computes them from today.
weekly_target(reference) ==
    LET wk == determine_target_week(reference)
        week_start == fromisocalendar(wk[1], wk[2], 1)
        week_end == AddDays(week_start, 6)
    IN  [iso_year |-> wk[1], iso_week |-> wk[2],
         week_start |-> week_start, week_end |-> week_end]

\* today, iso_year, iso_week, week_start, week_end are fixed before the try.
StartWeekly(p, limit) ==
    /\ Stage(p) = "weekly"
    /\ ~Active(p)
    /\ MayStart(p)
    /\ Admit(limit)
    /\ run' = [run EXCEPT ![p] = [Fresh EXCEPT !.pc = "collect", !.status = "running",
                                                !.target = weekly_target(today)]]
    /\ UNCHANGED <<call, ledger, drive, outbox, today, ticks, failures>>

\* Mutant: the empty check is gone.
never_empty(rows) == FALSE

\* if not rows: return
no_rows(rows) == rows = <<>>

\* Mutant: the batch is every row the tables hold when the flags are written.
ids_of_every_row(rows) == 1..(Len(daily_reports) + Len(weekly_reports))

\* The batch main hands to mark_daily_reports_included / mark_weekly_reports_included.
ids_to_mark(rows) == RowIds(rows)

WeeklyCollect(p) ==
    /\ run[p].pc = "collect"
    /\ Stage(p) = "weekly"
    /\ LET rows == get_daily_reports_for_week(daily_reports, run[p].target.iso_year,
                                              run[p].target.iso_week)
           pre == [artifacts |-> Len(weekly_reports),
                   flagged |-> Flagged(daily_reports, "included_in_weekly")]
       IN  IF no_rows(rows)
           THEN run' = [run EXCEPT ![p].pc = "done", ![p].status = "ok",
                                   ![p].rows = rows, ![p].pre = pre]
           ELSE run' = [run EXCEPT ![p].pc = "upload", ![p].rows = rows, ![p].pre = pre]
    /\ UNCHANGED <<call, ledger, drive, outbox, today, ticks, failures, started, overlaps>>

\* fetch_daily_report_texts, generate_weekly_report, render_html_report,
\* write_text, then upload_file.
WeeklyUpload(p) ==
    /\ run[p].pc = "upload"
    /\ Stage(p) = "weekly"
    /\ drive' = upload_file(drive, "WEEKLY_REPORTS_FOLDER_ID",
                            <<"weekly_report", run[p].target.iso_year, run[p].target.iso_week>>,
                            report_text(p))
    /\ run' = [run EXCEPT ![p].pc = "record", ![p].upload_id = NextDriveId]
    /\ UNCHANGED <<call, ledger, outbox, today, ticks, failures, started, overlaps>>

WeeklyRecord(p) ==
    /\ run[p].pc = "record"
    /\ Stage(p) = "weekly"
    /\ weekly_reports' = record_weekly_report(weekly_reports, run[p].upload_id,
            <<"weekly_report", run[p].target.iso_year, run[p].target.iso_week>>,
            run[p].target.iso_year, run[p].target.iso_week,
            isoformat(run[p].target.week_start), isoformat(run[p].target.week_end))
    /\ run' = [run EXCEPT ![p].pc = "mark"]
    /\ UNCHANGED <<call, raw_files, daily_reports, monthly_reports, drive, outbox,
                   today, ticks, failures, started, overlaps>>

WeeklyMark(p) ==
    /\ run[p].pc = "mark"
    /\ Stage(p) = "weekly"
    /\ daily_reports' = mark_daily_reports_included(daily_reports, ids_to_mark(run[p].rows))
    /\ run' = [run EXCEPT ![p].pc = "email"]
    /\ UNCHANGED <<call, raw_files, weekly_reports, monthly_reports, drive, outbox,
                   today, ticks, failures, started, overlaps>>

WeeklyEmail(p) ==
    /\ run[p].pc = "email"
    /\ Stage(p) = "weekly"
    /\ outbox' = Append(outbox, [subject |-> <<"Weekly Trade Report",
                                               isoformat(run[p].target.week_start),
                                               isoformat(run[p].target.week_end)>>,
                                 body |-> report_text(p)])
    /\ run' = [run EXCEPT ![p].pc = "done", ![p].status = "ok"]
    /\ UNCHANGED <<call, ledger, drive, today, ticks, failures, started, overlaps>>

\* A statement inside the try raises: nothing catches it, finally closes the
\* connection and the exception leaves main.
WeeklyFails(p) ==
    /\ Stage(p) = "weekly"
    /\ run[p].pc \in {"collect", "upload", "record", "mark", "email"}
    /\ failures < MaxFailures
    /\ failures' = failures + 1
    /\ run' = [run EXCEPT ![p].pc = "done", ![p].status = "error"]
    /\ UNCHANGED <<call, ledger, drive, outbox, today, ticks, started, overlaps>>

\* -------------------------------------------------------------- monthly job
StartMonthly(p, limit) ==
    /\ Stage(p) = "monthly"
    /\ ~Active(p)
    /\ MayStart(p)
    /\ Admit(limit)
    /\ LET pm == previous_month(today)
       IN  run' = [run EXCEPT ![p] = [Fresh EXCEPT !.pc = "collect", !.status = "running",
                       !.target = [month_start |-> pm[1], month_end |-> pm[2]]]]
    /\ UNCHANGED <<call, ledger, drive, outbox, today, ticks, failures>>

MonthlyCollect(p) ==
    /\ run[p].pc = "collect"
    /\ Stage(p) = "monthly"
    /\ LET rows == get_weekly_reports_for_month(weekly_reports, run[p].target.month_start[1],
                                                run[p].target.month_start[2])
           pre == [artifacts |-> Len(monthly_reports),
                   flagged |-> Flagged(weekly_reports, "included_in_monthly")]
       IN  IF no_rows(rows)
           THEN run' = [run EXCEPT ![p].pc = "done", ![p].status = "ok",
                                   ![p].rows = rows, ![p].pre = pre]
           ELSE run' = [run EXCEPT ![p].pc = "upload", ![p].rows = rows, ![p].pre = pre]
    /\ UNCHANGED <<call, ledger, drive, outbox, today, ticks, failures, started, overlaps>>

\* fetch_weekly_report_texts, generate_monthly_report, render_html_report,
\* write_text, then upload_file.
MonthlyUpload(p) ==
    /\ run[p].pc = "upload"
    /\ Stage(p) = "monthly"
    /\ drive' = upload_file(drive, "MONTHLY_REPORTS_FOLDER_ID",
                            <<"monthly_report", run[p].target.month_start[1],
                              run[p].target.month_start[2]>>,
                            report_text(p))
    /\ run' = [run EXCEPT ![p].pc = "record", ![p].upload_id = NextDriveId]
    /\ UNCHANGED <<call, ledger, outbox, today, ticks, failures, started, overlaps>>

MonthlyRecord(p) ==
    /\ run[p].pc = "record"
    /\ Stage(p) = "monthly"
    /\ monthly_reports' = record_monthly_report(monthly_reports, run[p].upload_id,
            <<"monthly_report", run[p].target.month_start[1], run[p].target.month_start[2]>>,
            run[p].target.month_start[1], run[p].target.month_start[2],
            isoformat(run[p].target.month_start), isoformat(run[p].target.month_end))
    /\ run' = [run EXCEPT ![p].pc = "mark"]
    /\ UNCHANGED <<call, raw_files, daily_reports, weekly_reports, drive, outbox,
                   today, ticks, failures, started, overlaps>>

MonthlyMark(p) ==
    /\ run[p].pc = "mark"
    /\ Stage(p) = "monthly"
    /\ weekly_reports' = mark_weekly_reports_included(weekly_reports, ids_to_mark(run[p].rows))
    /\ run' = [run EXCEPT ![p].pc = "email"]
    /\ UNCHANGED <<call, raw_files, daily_reports, monthly_reports, drive, outbox,
                   today, ticks, failures, started, overlaps>>

MonthlyEmail(p) ==
    /\ run[p].pc = "email"
    /\ Stage(p) = "monthly"
    /\ outbox' = Append(outbox, [subject |-> <<"Monthly Trade Report",
                                               run[p].target.month_start[1],
                                               run[p].target.month_start[2]>>,
                                 body |-> report_text(p)])
    /\ run' = [run EXCEPT ![p].pc = "done", ![p].status = "ok"]
    /\ UNCHANGED <<call, ledger, drive, today, ticks, failures, started, overlaps>>

MonthlyFails(p) ==
    /\ Stage(p) = "monthly"
    /\ run[p].pc \in {"collect", "upload", "record", "mark", "email"}
    /\ failures < MaxFailures
    /\ failures' = failures + 1
    /\ run' = [run EXCEPT ![p].pc = "done", ![p].status = "error"]
    /\ UNCHANGED <<call, ledger, drive, outbox, today, ticks, started, overlaps>>

\* finally: db.close(); main returns or the exception leaves it, and the
\* process is gone with its locals.
Exit(p) ==
    /\ run[p].pc = "done"
    /\ run' = [run EXCEPT ![p] = Fresh]
    /\ UNCHANGED <<call, ledger, drive, outbox, today, ticks, failures, started, overlaps>>

\* ------------------------------------------------------------ specifications
DailyStep(p) ==
    \/ DailyList(p) \/ DailyCheck(p) \/ DailyRecordRaw(p) \/ DailyUpload(p)
    \/ DailyMark(p) \/ DailyRecordDaily(p) \/ DailyEmail(p)

WeeklyStep(p) ==
    \/ WeeklyCollect(p) \/ WeeklyUpload(p) \/ WeeklyRecord(p)
    \/ WeeklyMark(p) \/ WeeklyEmail(p)

MonthlyStep(p) ==
    \/ MonthlyCollect(p) \/ MonthlyUpload(p) \/ MonthlyRecord(p)
    \/ MonthlyMark(p) \/ MonthlyEmail(p)

Raises(p) ==
    \/ DailyItemFails(p) \/ DailyAborts(p) \/ WeeklyFails(p) \/ MonthlyFails(p)

\* One run at a time, each started only after the one before it has left
\* main; any step may raise.
Next ==
    \/ Tick
    \/ \E p \in SeqProcs :
         \/ StartDaily(p, 1) \/ StartWeekly(p, 1) \/ StartMonthly(p, 1)
         \/ DailyStep(p) \/ WeeklyStep(p) \/ MonthlyStep(p)
         \/ Raises(p) \/ Exit(p)

Spec == Init /\ [][Next]_vars

\* The cron entries overlap: up to two runs are in flight at a time.  No step
\* raises here: the overlap alone is looked at.
NextOverlap ==
    \/ Tick
    \/ \E p \in Procs :
         \/ StartDaily(p, 2) \/ StartWeekly(p, 2) \/ StartMonthly(p, 2)
         \/ DailyStep(p) \/ WeeklyStep(p) \/ MonthlyStep(p)
         \/ Exit(p)

SpecOverlap == Init /\ [][NextOverlap]_vars

\* The three jobs started on the first day of a month, a Friday: the weekly
\* job takes the week of 2024-02-26, which the monthly job, taking February,
\* collects too.
MonthTurn == <<2024, 3, 1>>

InitStages ==
    /\ raw_files = <<>>
    /\ daily_reports = <<>>
    /\ weekly_reports = <<>>
    /\ monthly_reports = <<>>
    /\ drive = <<>>
    /\ outbox = <<>>
    /\ today = MonthTurn
    /\ ticks = 0
    /\ failures = 0
    /\ started = 0
    /\ overlaps = 0
    /\ run = [p \in Procs |-> Fresh]
    /\ call = NoCall

\* Runs of different jobs overlap, up to one of each job at a time; no job
\* overlaps itself and no step raises.
NextStages ==
    \/ Tick
    \/ \E p \in SeqProcs :
         \/ StartDaily(p, 3) \/ StartWeekly(p, 3) \/ StartMonthly(p, 3)
         \/ DailyStep(p) \/ WeeklyStep(p) \/ MonthlyStep(p)
         \/ Exit(p)

SpecStages == InitStages /\ [][NextStages]_vars

\* Two runs of one job overlap: beside the scheduled run of a job (d1, w1),
\* started when nothing else runs, a second run of the same job (d2, w2) is
\* started while it is in flight.  No step raises.
SameStage(p) == p \in SeqProcs => NumActive = 0

NextSameStage ==
    \E p \in {"d1", "d2", "w1", "w2"} :
         \/ SameStage(p) /\ StartDaily(p, 3)
         \/ SameStage(p) /\ StartWeekly(p, 3)
         \/ DailyStep(p) \/ WeeklyStep(p)
         \/ Exit(p)

SpecSameStage == Init /\ [][NextSameStage]_vars

\* ------------------------------------------------- a client of the ledger
\* The methods of Database called one at a time, in any order and with any
\* arguments of the sets below, as a caller other than the three jobs may.
MaxCalls == 3

\* Raw files and report uploads a client names, by Drive id.
ClientRawIds == {1, 2}
ClientRefs == {5, 6}
ClientWeeklyIds == {8, 9}

\* Report dates: Sunday of ISO week 9, Monday and Sunday of week 10, Monday
\* of week 11 of 2024, and 2024-12-30, which is in week 1 of ISO year 2025.
ClientDates == {<<2024, 3, 3>>, <<2024, 3, 4>>, <<2024, 3, 10>>, <<2024, 3, 11>>, <<2024, 12, 30>>}

\* Weeks: wholly in February, reaching from February into March, wholly in March.
ClientWeeks == {<<2024, 8>>, <<2024, 9>>, <<2024, 10>>}

\* The row ids a client hands to a mark_* method: those of the rows of the
\* table and one that is no row's.
ClientRowIds(tbl) == 1..(Len(tbl) + 1)

\* A call that returned.
Returned(op, args) ==
    /\ call.n < MaxCalls
    /\ call' = [n |-> call.n + 1, op |-> op, args |-> args, outcome |-> "ok", result |-> <<>>]

CallRecordRawFile ==
    \E id \in ClientRawIds, ref \in ClientRefs \cup {None} :
        /\ Returned("record_raw_file", <<id, ref>>)
        /\ raw_files' = record_raw_file(raw_files, id, RawFolder[id].name, isoformat(StartDate),
                                        ref, isoformat(today))
        /\ UNCHANGED <<daily_reports, weekly_reports, monthly_reports, drive, outbox,
                       today, ticks, failures, started, overlaps, run>>

\* The UPDATE of no row raises nothing: the method returns None.
CallMarkRawFileProcessed ==
    \E id \in ClientRawIds, ref \in ClientRefs :
        /\ Returned("mark_raw_file_processed", <<id, ref>>)
        /\ raw_files' = mark_raw_file_processed(raw_files, id, ref, isoformat(today))
        /\ UNCHANGED <<daily_reports, weekly_reports, monthly_reports, drive, outbox,
                       today, ticks, failures, started, overlaps, run>>

CallRecordDailyReport ==
    \E id \in ClientRefs, d \in ClientDates :
        /\ Returned("record_daily_report", <<id, isoformat(d)>>)
        /\ daily_reports' = record_daily_report(daily_reports, id,
                                                <<"daily_report", isoformat(d)>>, isoformat(d))
        /\ UNCHANGED <<raw_files, weekly_reports, monthly_reports, drive, outbox,
                       today, ticks, failures, started, overlaps, run>>

CallMarkDailyReportsIncluded ==
    \E ids \in SUBSET ClientRowIds(daily_reports) :
        /\ Returned("mark_daily_reports_included", <<ids>>)
        /\ daily_reports' = mark_daily_reports_included(daily_reports, ids)
        /\ UNCHANGED <<raw_files, weekly_reports, monthly_reports, drive, outbox,
                       today, ticks, failures, started, overlaps, run>>

CallRecordWeeklyReport ==
    \E id \in ClientWeeklyIds, wk \in ClientWeeks :
        LET week_start == fromisocalendar(wk[1], wk[2], 1)
            week_end == AddDays(week_start, 6)
        IN  /\ Returned("record_weekly_report", <<id, wk[1], wk[2]>>)
            /\ weekly_reports' = record_weekly_report(weekly_reports, id,
                                     <<"weekly_report", wk[1], wk[2]>>, wk[1], wk[2],
                                     isoformat(week_start), isoformat(week_end))
            /\ UNCHANGED <<raw_files, daily_reports, monthly_reports, drive, outbox,
                           today, ticks, failures, started, overlaps, run>>

CallMarkWeeklyReportsIncluded ==
    \E ids \in SUBSET ClientRowIds(weekly_reports) :
        /\ Returned("mark_weekly_reports_included", <<ids>>)
        /\ weekly_reports' = mark_weekly_reports_included(weekly_reports, ids)
        /\ UNCHANGED <<raw_files, daily_reports, monthly_reports, drive, outbox,
                       today, ticks, failures, started, overlaps, run>>

\* A client of the raw_files table, the clock going on between its calls.
NextRawFiles ==
    \/ Tick
    \/ CallRecordRawFile \/ CallMarkRawFileProcessed

SpecRawFiles == Init /\ [][NextRawFiles]_vars

\* A client of the daily_reports and weekly_reports tables.
NextReports ==
    \/ CallRecordDailyReport \/ CallMarkDailyReportsIncluded
    \/ CallRecordWeeklyReport \/ CallMarkWeeklyReportsIncluded

SpecReports == Init /\ [][NextReports]_vars

\* Monthly report uploads a client names, and the months it names.
ClientMonthlyIds == {11, 12}
ClientMonths == {<<2024, 2>>, <<2024, 3>>}

CallRecordMonthlyReport ==
    \E id \in ClientMonthlyIds, mo \in ClientMonths :
        LET mb == month_bounds(mo[1], mo[2])
        IN  /\ Returned("record_monthly_report", <<id, mo[1], mo[2]>>)
            /\ monthly_reports' = record_monthly_report(monthly_reports, id,
                                      <<"monthly_report", mo[1], mo[2]>>, mo[1], mo[2],
                                      isoformat(mb[1]), isoformat(mb[2]))
            /\ UNCHANGED <<raw_files, daily_reports, weekly_reports, drive, outbox,
                           today, ticks, failures, started, overlaps, run>>

\* A client of all four tables: every method of Database that writes.
NextLedger ==
    \/ CallRecordRawFile \/ CallMarkRawFileProcessed
    \/ CallRecordDailyReport \/ CallMarkDailyReportsIncluded
    \/ CallRecordWeeklyReport \/ CallMarkWeeklyReportsIncluded
    \/ CallRecordMonthlyReport

SpecLedger == Init /\ [][NextLedger]_vars

\* ------------------------------------------------------ the pure functions
\* parse_trade_date, the target periods of the weekly and the monthly job and
\* _call_gemini, computed once each for a file name, a modification time, a
\* day and a backend response taken from the sets below.
MaxDayOffset == 13

\* Days around the turn of a year with 53 ISO weeks (2020, 2026) and of
\* others, and around the end of February in a leap and in a common year.
CalcDays ==
    {AddDays(base, k) :
        base \in {<<2020, 12, 24>>, <<2023, 2, 22>>, <<2023, 12, 25>>,
                  <<2024, 2, 23>>, <<2024, 12, 25>>, <<2026, 12, 25>>},
        k \in 0..MaxDayOffset}

\* File names: a date in the name, a date after other digits, no date, and
\* digits of the pattern that are no date of the calendar.
CalcNames ==
    {"trades_02_27_2024.csv", "v2_03_14_2024.csv", "export.csv",
     "trades_13_45_2024.csv", "trades_02_30_2024.csv"}

\* modifiedTime of the file; "" when Drive gave none.
CalcTimes == {"", "2024-02-28T01:10:00Z", "2024-02-20T10:00:00Z"}

InitCalc ==
    /\ raw_files = <<>>
    /\ daily_reports = <<>>
    /\ weekly_reports = <<>>
    /\ monthly_reports = <<>>
    /\ drive = <<>>
    /\ outbox = <<>>
    /\ today \in CalcDays
    /\ ticks = 0
    /\ failures = 0
    /\ started = 0
    /\ overlaps = 0
    /\ run = [p \in Procs |-> Fresh]
    /\ call = NoCall

\* One computation, its outcome kept in call.
Computed(op, args, outcome, result) ==
    [n |-> 1, op |-> op, args |-> args, outcome |-> outcome, result |-> result]

CalcParseTradeDate ==
    /\ call.n = 0
    /\ \E file_name \in CalcNames, modified_time \in CalcTimes :
         LET parsed == parse_trade_date(file_name, modified_time, today)
         IN  call' = Computed("parse_trade_date", <<file_name, modified_time>>,
                              IF parsed.ok THEN "ok" ELSE "ValueError",
                              IF parsed.ok THEN parsed.date ELSE <<>>)
    /\ UNCHANGED <<ledger, drive, outbox, today, ticks, failures, started, overlaps, run>>

\* weekly_job.main on this day: the row it hands to record_weekly_report.
CalcWeeklyPeriod ==
    /\ call.n = 0
    /\ LET t == weekly_target(today)
       IN  call' = Computed("weekly_period", <<today>>, "ok",
                       record_weekly_report(<<>>, NextDriveId,
                           <<"weekly_report", t.iso_year, t.iso_week>>, t.iso_year, t.iso_week,
                           isoformat(t.week_start), isoformat(t.week_end))[1])
    /\ UNCHANGED <<ledger, drive, outbox, today, ticks, failures, started, overlaps, run>>

\* monthly_job.main on this day: the row it hands to record_monthly_report.
CalcMonthlyPeriod ==
    /\ call.n = 0
    /\ LET pm == previous_month(today)
       IN  call' = Computed("monthly_period", <<today>>, "ok",
                       record_monthly_report(<<>>, NextDriveId,
                           <<"monthly_report", pm[1][1], pm[1][2]>>, pm[1][1], pm[1][2],
                           isoformat(pm[1]), isoformat(pm[2]))[1])
    /\ UNCHANGED <<ledger, drive, outbox, today, ticks, failures, started, overlaps, run>>

\* A candidate of a generateContent response with the given text.
Candidate(text) == [content |-> [parts |-> <<[text |-> text]>>]]

\* What the backend may answer: an HTTP error; no candidates key; an empty
\* candidates list; a candidate without content; a part without text; a text
\* that is empty, that is white space only, that is a report with white space
\* around it.
GeminiResponses ==
    {[status |-> 500, json |-> EmptyDict],
     [status |-> 200, json |-> EmptyDict],
     [status |-> 200, json |-> [candidates |-> <<>>]],
     [status |-> 200, json |-> [candidates |-> <<EmptyDict>>]],
     [status |-> 200, json |-> [candidates |-> <<[content |-> [parts |-> <<>>]]>>]],
     [status |-> 200, json |-> [candidates |-> <<[content |-> [parts |-> <<EmptyDict>>]]>>]],
     [status |-> 200, json |-> [candidates |-> <<Candidate(<<>>)>>]],
     [status |-> 200, json |-> [candidates |-> <<Candidate(<<" ", "\n">>)>>]],
     [status |-> 200, json |-> [candidates |-> <<Candidate(<<"\n">>)>>]],
     [status |-> 200, json |-> [candidates |-> <<Candidate(<<"#", " ", "P", "\n">>)>>]],
     [status |-> 200, json |-> [candidates |-> <<Candidate(<<" ", "o", "k">>), Candidate(<<>>)>>]]}

\* One generation: the backend's answer through _call_gemini.
CalcCallGemini ==
    /\ call.n = 0
    /\ \E response \in GeminiResponses :
         LET r == _call_gemini(response)
         IN  call' = Computed("_call_gemini", <<response>>, r.outcome, r.text)
    /\ UNCHANGED <<ledger, drive, outbox, today, ticks, failures, started, overlaps, run>>

NextCalc == CalcParseTradeDate \/ CalcWeeklyPeriod \/ CalcMonthlyPeriod \/ CalcCallGemini

SpecCalc == InitCalc /\ [][NextCalc]_vars

CsvIds == {csv_files[i].id : i \in 1..Len(csv_files)}

Range(seq) == {seq[i] : i \in 1..Len(seq)}

\* The uploaded file with a Drive id.
DriveFile(id) == drive[id - Len(RawFolder)]

IsDaily(p) == Stage(p) = "daily"
IsRollup(p) == Stage(p) \in {"weekly", "monthly"}

\* Raw file f is marked processed: its row holds a derived-output reference.
Processed(tbl, f) == HasRow(tbl, f) /\ tbl[RowOf(tbl, f)].daily_report_drive_id # None

\* The daily reports uploaded for raw file f, and the daily_reports rows of them.
DailyUploadsOf(files, f) ==
    {Len(RawFolder) + i : i \in {k \in 1..Len(files) : files[k].text = [kind |-> "daily", of |-> <<f>>]}}

DailyArtifactsOf(f) ==
    {i \in 1..Len(daily_reports) : daily_reports[i].drive_file_id \in DailyUploadsOf(drive, f)}

\* C1: once a raw input has been marked processed, needsProcessing(id) is
\* false in every later state, whatever ledger operation follows.
C1_NeedsProcessingMonotone ==
    [][\A f \in CsvIds :
         ~raw_file_needs_processing(raw_files, f) => ~raw_file_needs_processing(raw_files', f)]_vars

\* C2: in every raw_files row the derived-output reference is non-null iff
\* the consumed timestamp is non-null.
C2_RefIffProcessedAt ==
    \A i \in 1..Len(raw_files) :
        (raw_files[i].daily_report_drive_id # None) <=> (raw_files[i].processed_at # None)

\* C3: a raw input that is marked processed is not produced again by a later
\* daily run (no further report is uploaded for it), and the ledger never
\* holds two daily artifacts for one raw input.
C3_DailyIdempotent ==
    /\ [](\A f \in CsvIds : Cardinality(DailyArtifactsOf(f)) <= 1)
    /\ [][\A f \in CsvIds :
            Processed(raw_files, f) => DailyUploadsOf(drive', f) = DailyUploadsOf(drive, f)]_vars

\* A second daily run has gone through the listing and attempted nothing,
\* every file having been processed by the run before it.
C3_Witness ==
    \E p \in Procs :
        /\ IsDaily(p) /\ run[p].pc = "done" /\ run[p].status = "ok"
        /\ run[p].tried = {}
        /\ \A f \in CsvIds : Processed(raw_files, f) /\ Cardinality(DailyArtifactsOf(f)) = 1

\* The table a weekly / monthly run writes its artifact to, and the flag
\* column of the table it collects from.
Recorded(p) ==
    /\ run[p].upload_id # None
    /\ HasRow(IF Stage(p) = "weekly" THEN weekly_reports ELSE monthly_reports, run[p].upload_id)

FlaggedInputs(p) ==
    IF Stage(p) = "weekly" THEN Flagged(daily_reports, "included_in_weekly")
    ELSE Flagged(weekly_reports, "included_in_monthly")

\* C4: when a weekly or monthly run has ended, normally or by a failure,
\* either its artifact is recorded and every collected row is flagged, or no
\* artifact is recorded and no collected row is flagged.
C4_AllOrNothing ==
    \A p \in Procs :
        (IsRollup(p) /\ run[p].pc = "done") =>
            \/ Recorded(p) /\ RowIds(run[p].rows) \subseteq FlaggedInputs(p)
            \/ ~Recorded(p) /\ RowIds(run[p].rows) \cap FlaggedInputs(p) = {}

\* The weekly_reports rows whose report was made from daily report d, and
\* the monthly emails whose report was made from weekly report w.
WeeklyArtifactsCovering(d) ==
    {i \in 1..Len(weekly_reports) :
        d \in Range(DriveFile(weekly_reports[i].drive_file_id).text.of)}

MonthlyArtifactsCovering(w) ==
    {i \in 1..Len(monthly_reports) :
        w \in Range(DriveFile(monthly_reports[i].drive_file_id).text.of)}

MonthlyEmailsCovering(w) ==
    {i \in 1..Len(outbox) : outbox[i].body.kind = "monthly" /\ w \in Range(outbox[i].body.of)}

\* C5: over sequential weekly runs, failed and re-invoked at will, every
\* daily artifact is folded into at most one recorded weekly artifact.
C5_DailyFoldedOnce ==
    \A i \in 1..Len(daily_reports) :
        Cardinality(WeeklyArtifactsCovering(daily_reports[i].drive_file_id)) <= 1

\* C6: once a weekly artifact is flagged included, no later monthly run
\* records an artifact covering it; and at most one monthly run that ran to
\* its end (its email is out) has folded any one weekly artifact.
C6_WeeklyFoldedOnce ==
    /\ [](\A i \in 1..Len(weekly_reports) :
            Cardinality(MonthlyEmailsCovering(weekly_reports[i].drive_file_id)) <= 1)
    /\ [][\A i \in 1..Len(weekly_reports) :
            weekly_reports[i].included_in_monthly = 1 =>
                /\ weekly_reports'[i].included_in_monthly = 1
                /\ Cardinality({k \in 1..Len(monthly_reports') :
                       weekly_reports[i].drive_file_id
                           \in Range(drive'[monthly_reports'[k].drive_file_id - Len(RawFolder)].text.of)})
                     = Cardinality(MonthlyArtifactsCovering(weekly_reports[i].drive_file_id))]_vars

\* The monthly run for March 2024 has found nothing to collect although the
\* week of 2024-02-26, which reaches into March, is in the ledger: the run
\* for February has flagged it.
C6_Witness ==
    \E p \in Procs :
        /\ Stage(p) = "monthly" /\ run[p].pc = "done" /\ run[p].status = "ok"
        /\ run[p].target.month_start = <<2024, 3, 1>>
        /\ run[p].rows = <<>>
        /\ \E i \in 1..Len(weekly_reports) :
             /\ weekly_reports[i].included_in_monthly = 1
             /\ weekly_reports[i].week_start_date = 20240226
             /\ weekly_reports[i].week_end_date = 20240303
             /\ Cardinality(MonthlyEmailsCovering(weekly_reports[i].drive_file_id)) = 1

\* C7: a daily run in which an item has failed still ends normally, and has
\* attempted every file of the listing that needed processing.
C7_ItemFailureIsolated ==
    \A p \in Procs :
        (IsDaily(p) /\ run[p].failed # {}) =>
            /\ run[p].status # "error"
            /\ run[p].pc = "done" =>
                 \A f \in CsvIds : f \in run[p].tried \/ Processed(raw_files, f)

\* The first file of the listing failed, and the run went on to attempt and
\* process the last one.
C7_Witness ==
    \E p \in Procs :
        /\ IsDaily(p) /\ run[p].pc = "done" /\ run[p].status = "ok"
        /\ run[p].failed = {csv_files[1].id}
        /\ csv_files[Len(csv_files)].id \in run[p].tried
        /\ Processed(raw_files, csv_files[Len(csv_files)].id)

\* What the collecting query of a weekly / monthly run returns now.
Pending(p) ==
    IF Stage(p) = "weekly"
    THEN get_daily_reports_for_week(daily_reports, run[p].target.iso_year, run[p].target.iso_week)
    ELSE get_weekly_reports_for_month(weekly_reports, run[p].target.month_start[1],
                                      run[p].target.month_start[2])

\* C8: a weekly or monthly run whose collecting query returns no rows ends
\* at once and normally; the ledger, Drive and the outbox are as before.
C8_EmptyIsNoOp ==
    [][\A p \in Procs :
         (/\ IsRollup(p) /\ run[p].pc = "collect" /\ run'[p].pc # "collect"
          /\ failures' = failures
          /\ Pending(p) = <<>>)
         => /\ run'[p].pc = "done" /\ run'[p].status = "ok"
            /\ run'[p].upload_id = None
            /\ UNCHANGED <<ledger, drive, outbox>>]_vars

\* A weekly run has ended normally with nothing collected while the ledger
\* holds daily artifacts (of other weeks, or flagged).
C8_Witness ==
    \E p \in Procs :
        /\ Stage(p) = "weekly" /\ run[p].pc = "done" /\ run[p].status = "ok"
        /\ run[p].rows = <<>> /\ run[p].upload_id = None
        /\ daily_reports # <<>>

\* C9: a weekly or monthly run that ends normally with rows collected has
\* added exactly one artifact and flagged exactly the rows it collected.
C9_OneArtifactExactFlags ==
    \A p \in Procs :
        (IsRollup(p) /\ run[p].pc = "done" /\ run[p].status = "ok" /\ run[p].rows # <<>>) =>
            /\ Len(IF Stage(p) = "weekly" THEN weekly_reports ELSE monthly_reports)
                 = run[p].pre.artifacts + 1
            /\ Recorded(p)
            /\ RowIds(run[p].rows) \cap run[p].pre.flagged = {}
            /\ FlaggedInputs(p) = run[p].pre.flagged \cup RowIds(run[p].rows)

\* A weekly run has ended normally and flagged what it collected, and a
\* daily artifact of another week is left unflagged.
C9_Witness ==
    \E p \in Procs :
        /\ Stage(p) = "weekly" /\ run[p].pc = "done" /\ run[p].status = "ok"
        /\ run[p].rows # <<>>
        /\ \E i \in 1..Len(daily_reports) :
             i \notin RowIds(run[p].rows) /\ daily_reports[i].included_in_weekly = 0

\* The raw_files row of a file.
RawRow(f) == raw_files[RowOf(raw_files, f)]

\* C10: after a daily run in which no item failed, every raw input it
\* processed has exactly one daily artifact: its row's drive id is the raw
\* input's derived-output reference, its report date the raw input's trade
\* date, and no two raw inputs share an artifact.
C10_OneArtifactPerInput ==
    \A p \in Procs :
        (IsDaily(p) /\ run[p].pc = "done" /\ run[p].status = "ok" /\ run[p].failed = {}) =>
            /\ \A f \in run[p].tried :
                 /\ HasRow(raw_files, f)
                 /\ RawRow(f).daily_report_drive_id # None
                 /\ Cardinality({i \in 1..Len(daily_reports) :
                        /\ daily_reports[i].drive_file_id = RawRow(f).daily_report_drive_id
                        /\ daily_reports[i].report_date = RawRow(f).trade_date}) = 1
                 /\ DailyArtifactsOf(f) # {}
            /\ \A f, g \in run[p].tried :
                 f # g => RawRow(f).daily_report_drive_id # RawRow(g).daily_report_drive_id

\* A daily run has processed, without a failure, the two files of 2024-02-27.
C10_Witness ==
    \E p \in Procs :
        /\ IsDaily(p) /\ run[p].pc = "done" /\ run[p].status = "ok" /\ run[p].failed = {}
        /\ {csv_files[1].id, csv_files[2].id} \subseteq run[p].tried
        /\ RawRow(csv_files[1].id).trade_date = RawRow(csv_files[2].id).trade_date

\* A client has just made the call op.
Called(op) == call'.n = call.n + 1 /\ call'.op = op

\* C11: mark_raw_file_processed on a drive_file_id that has no row fails with
\* NotFound and leaves the ledger unchanged.
C11_MarkUnknownNotFound ==
    [][(Called("mark_raw_file_processed") /\ ~HasRow(raw_files, call'.args[1]))
         => (call'.outcome = "NotFound" /\ UNCHANGED ledger)]_vars

\* The processed_at a raw file has in a table (None without a row).
ProcessedAt(tbl, f) == IF HasRow(tbl, f) THEN tbl[RowOf(tbl, f)].processed_at ELSE None

\* C12: record_raw_file sets processed_at to the current time only when the
\* reference goes from null (or no row) to non-null in the call; a call on a
\* row whose reference is non-null already, and a call with a null reference,
\* leave processed_at as it was.
C12_TimestampOnlyOnTransition ==
    [][Called("record_raw_file") =>
         LET f == call'.args[1]
             ref == call'.args[2]
             transition == ref # None /\ ~Processed(raw_files, f)
         IN  ProcessedAt(raw_files', f) =
                 IF transition THEN isoformat(today) ELSE ProcessedAt(raw_files, f)]_vars

\* The weeks and months the queries are asked for.
QueryWeeks == {<<2024, 1>>, <<2024, 9>>, <<2024, 10>>, <<2024, 11>>, <<2025, 1>>}
QueryMonths == {<<2024, 1>>, <<2024, 2>>, <<2024, 3>>, <<2024, 4>>}

\* The date is one of the seven days from the Monday of ISO week (y, w) on.
InWeek(d, y, w) ==
    LET monday == ToOrdinal(fromisocalendar(y, w, 1))
    IN  monday <= ToOrdinal(d) /\ ToOrdinal(d) <= monday + 6

SharesDay(row, year, month) ==
    LET first == fromisoformat(row.week_start_date)
        last == fromisoformat(row.week_end_date)
    IN  \/ first[1] = year /\ first[2] = month
        \/ last[1] = year /\ last[2] = month

DailyEmailsOf(f) ==
    {i \in 1..Len(outbox) : outbox[i].body = [kind |-> "daily", of |-> <<f>>]}

HasPattern(file_name) == file_name \notin {"export.csv", "notes.txt"}

NameDate(file_name) ==
    CASE file_name = "trades_02_27_2024.csv" -> <<2024, 2, 27>>
      [] file_name = "v2_03_14_2024.csv" -> <<2024, 3, 14>>
      [] file_name = "trades_13_45_2024.csv" -> <<2024, 13, 45>>
      [] file_name = "trades_02_30_2024.csv" -> <<2024, 2, 30>>

TimeDate(modified_time) ==
    CASE modified_time = "2024-02-28T01:10:00Z" -> <<2024, 2, 28>>
      [] modified_time = "2024-02-20T10:00:00Z" -> <<2024, 2, 20>>

\* C17: parse_trade_date returns a date for every file name and modification
\* time: the date in the name if the name has the MM_DD_YYYY pattern, whatever
\* the modification time; else the date of the modification time if there is
\* one; else the current date.
C17_TradeDateFallback ==
    call.op = "parse_trade_date" =>
        /\ call.outcome = "ok"
        /\ call.result =
             IF HasPattern(call.args[1]) THEN NameDate(call.args[1])
             ELSE IF call.args[2] # "" THEN TimeDate(call.args[2])
             ELSE today

\* C18: the week the weekly job computes for a day starts on a Monday, ends
\* six days later and holds the day; the weekly_reports row carries that
\* range with the ISO year and week of the day.
C18_WeekRoundTrip ==
    call.op = "weekly_period" =>
        LET row == call.result
            week_start == ToOrdinal(fromisoformat(row.week_start_date))
            week_end == ToOrdinal(fromisoformat(row.week_end_date))
        IN  /\ week_start % 7 = 1
            /\ week_end = week_start + 6
            /\ week_start <= ToOrdinal(today) /\ ToOrdinal(today) <= week_end
            /\ <<row.iso_year, row.iso_week>> = <<isocalendar(today)[1], isocalendar(today)[2]>>
            /\ ValidDate(row.week_start_date \div 10000, (row.week_start_date \div 100) % 100,
                         row.week_start_date % 100)

\* The day is the Monday that begins ISO year 2025, in calendar year 2024.
C18_Witness ==
    /\ call.op = "weekly_period" /\ today = <<2024, 12, 30>>
    /\ call.result.iso_year = 2025 /\ call.result.iso_week = 1
    /\ call.result.week_start_date = 20241230 /\ call.result.week_end_date = 20250105

\* C19: the month the monthly job computes for a day is the calendar month
\* before the day's, from its day 1 to its last day (December of the year
\* before for a day of January); get_weekly_reports_for_month uses the same
\* two days, and the monthly_reports row carries them.
C19_MonthBoundaries ==
    call.op = "monthly_period" =>
        LET row == call.result
            year == IF today[2] = 1 THEN today[1] - 1 ELSE today[1]
            month == IF today[2] = 1 THEN 12 ELSE today[2] - 1
        IN  /\ row.year = year /\ row.month = month
            /\ row.month_start = year * 10000 + month * 100 + 1
            /\ row.month_end = year * 10000 + month * 100 + DaysInMonth(year, month)
            /\ month_bounds(year, month)
                 = <<fromisoformat(row.month_start), fromisoformat(row.month_end)>>
            /\ previous_month(today) = month_bounds(year, month)

\* On a day of March 2024 the month is February with its 29 days.
C19_Witness ==
    /\ call.op = "monthly_period" /\ today = <<2024, 3, 1>>
    /\ call.result.month_start = 20240201 /\ call.result.month_end = 20240229

\* The rows of a table whose flag goes up in this step.
NewlyFlagged(old, new, col) ==
    {i \in 1..Len(new) : new[i][col] = 1 /\ (i > Len(old) \/ old[i][col] = 0)}

\* A run of the stage is writing its flags, has row i in what it collected
\* and has recorded its artifact.
FoldedBy(stage, i) ==
    \E p \in Procs :
        /\ Stage(p) = stage /\ run[p].pc = "mark"
        /\ i \in RowIds(run[p].rows)
        /\ Recorded(p)

\* C20: when a daily, a weekly and a monthly run interleave, a flag goes up
\* only for a row that a run which has recorded its artifact collected; a row
\* recorded after a run collected is not flagged by that run: once the run
\* has written its flags, the flagged rows are those flagged before it
\* collected and those it collected.
C20_DifferentStagesSafe ==
    /\ [](\A p \in Procs :
            (IsRollup(p) /\ run[p].rows # <<>> /\ run[p].pc \in {"email", "done"})
                => FlaggedInputs(p) = run[p].pre.flagged \cup RowIds(run[p].rows))
    /\ [][/\ \A i \in NewlyFlagged(daily_reports, daily_reports', "included_in_weekly") :
               FoldedBy("weekly", i)
          /\ \A i \in NewlyFlagged(weekly_reports, weekly_reports', "included_in_monthly") :
               FoldedBy("monthly", i)]_vars

\* The monthly run for February has written its flags; a second weekly
\* artifact of the week of 2024-02-26, recorded after the run collected, is
\* unflagged and pending for February.
C20_Witness ==
    \E p \in Procs :
        /\ Stage(p) = "monthly" /\ run[p].pc \in {"email", "done"} /\ run[p].rows # <<>>
        /\ run[p].target.month_start = <<2024, 2, 1>>
        /\ \E j \in 1..Len(weekly_reports) :
             /\ j \notin RowIds(run[p].rows)
             /\ weekly_reports[j] \in Range(Pending(p))

\* A weekly run that collected rows is past its record_weekly_report call
\* (no step raises in the specification this is read in).
PastRecord(p) ==
    \/ run[p].pc \in {"mark", "email"}
    \/ run[p].pc = "done" /\ run[p].rows # <<>>

\* The Drive ids of the weekly artifacts covering daily artifact row i, and
\* of the daily artifacts made for raw file f.
WeeklyIdsCovering(i) ==
    {weekly_reports[k].drive_file_id :
        k \in WeeklyArtifactsCovering(daily_reports[i].drive_file_id)}

DailyIdsOf(f) == {daily_reports[k].drive_file_id : k \in DailyArtifactsOf(f)}

\* The file a daily run is at.
ItemOf(p) == csv_files[run[p].idx].id

\* C21: two overlapping weekly runs for one ISO week that both collected a
\* daily artifact (neither had flagged it when the other read it) each record
\* a weekly artifact of their own covering it; two overlapping daily runs
\* that both found a raw file in need of processing each record a daily
\* artifact of their own for it.
C21_SameStageRace ==
    /\ (/\ PastRecord("w1") /\ PastRecord("w2")
        /\ run["w1"].target = run["w2"].target) =>
          \A i \in RowIds(run["w1"].rows) \cap RowIds(run["w2"].rows) :
              /\ run["w1"].upload_id # run["w2"].upload_id
              /\ {run["w1"].upload_id, run["w2"].upload_id} \subseteq WeeklyIdsCovering(i)
    /\ (/\ run["d1"].pc = "email" /\ run["d2"].pc = "email"
        /\ run["d1"].idx = run["d2"].idx) =>
          /\ run["d1"].upload_id # run["d2"].upload_id
          /\ {run["d1"].upload_id, run["d2"].upload_id} \subseteq DailyIdsOf(ItemOf("d1"))

\* Two weekly runs for the week of 2024-02-26 have both recorded an artifact
\* covering one daily artifact they both collected, and the ledger holds two
\* daily artifacts made for one raw file by two overlapping daily runs.
C21_Witness ==
    /\ \E p, q \in Procs :
         /\ p # q /\ Stage(p) = "weekly" /\ Stage(q) = "weekly"
         /\ run[p].target = run[q].target
         /\ PastRecord(p) /\ PastRecord(q)
         /\ \E i \in RowIds(run[p].rows) \cap RowIds(run[q].rows) :
              Cardinality(WeeklyIdsCovering(i)) = 2
    /\ \E f \in CsvIds : Cardinality(DailyIdsOf(f)) = 2

\* No two rows of a table share a source identity.
UniqueIds(tbl) ==
    \A i, j \in 1..Len(tbl) : tbl[i].drive_file_id = tbl[j].drive_file_id => i = j

\* Every row of old is still in new, in its place and under its identity.
RowsKept(old, new) ==
    /\ Len(new) >= Len(old)
    /\ \A i \in 1..Len(old) :
         new[i].id = old[i].id /\ new[i].drive_file_id = old[i].drive_file_id

\* The write of a source identity the table holds adds no row; the write of
\* a new one adds exactly one, under that identity.
InPlace(op, old, new) ==
    Called(op) =>
        IF \E i \in 1..Len(old) : old[i].drive_file_id = call'.args[1]
        THEN Len(new) = Len(old)
        ELSE Len(new) = Len(old) + 1 /\ new[Len(new)].drive_file_id = call'.args[1]

\* C22: each of the four tables holds at most one row per source identity;
\* a record_* call for an identity the table holds updates that row and adds
\* none; no call removes a row or changes the identity of one.
C22_UniqueSourceIdentity ==
    /\ [](/\ UniqueIds(raw_files) /\ UniqueIds(daily_reports)
          /\ UniqueIds(weekly_reports) /\ UniqueIds(monthly_reports))
    /\ [][/\ RowsKept(raw_files, raw_files') /\ RowsKept(daily_reports, daily_reports')
          /\ RowsKept(weekly_reports, weekly_reports')
          /\ RowsKept(monthly_reports, monthly_reports')
          /\ InPlace("record_raw_file", raw_files, raw_files')
          /\ InPlace("record_daily_report", daily_reports, daily_reports')
          /\ InPlace("record_weekly_report", weekly_reports, weekly_reports')
          /\ InPlace("record_monthly_report", monthly_reports, monthly_reports')]_vars

\* The monthly report 11, recorded for February 2024, has been recorded again
\* for March: one row, now of March.
C22_Witness ==
    /\ call.n >= 2 /\ call.op = "record_monthly_report" /\ call.args = <<11, 2024, 3>>
    /\ Len(monthly_reports) = 1
    /\ monthly_reports[1].drive_file_id = 11
    /\ monthly_reports[1].month = 3

\* The process that takes this step.
Mover(p) == run'[p] # run[p]

\* No flag of column col changes, and a row that is new has it at 0.
FlagsKept(old, new, col) ==
    /\ Len(new) >= Len(old)
    /\ \A i \in 1..Len(new) : new[i][col] = IF i <= Len(old) THEN old[i][col] ELSE 0

\* Nothing but the flags of column col changes: the same rows, each with
\* every other column as it was.
OnlyFlags(old, new, col) ==
    /\ Len(new) = Len(old)
    /\ \A i \in 1..Len(old) : [new[i] EXCEPT ![col] = old[i][col]] = old[i]

\* C23: a step of a daily run leaves the daily included flags and the weekly
\* and monthly tables alone; a step of a weekly run leaves the raw and
\* monthly tables and the weekly included flags alone and changes nothing of
\* a daily row but its flag; a step of a monthly run leaves the raw and daily
\* tables alone and changes nothing of a weekly row but its flag.
C23_UpwardOnly ==
    [][\A p \in Procs :
         Mover(p) =>
            /\ Stage(p) = "daily" =>
                 /\ UNCHANGED <<weekly_reports, monthly_reports>>
                 /\ FlagsKept(daily_reports, daily_reports', "included_in_weekly")
            /\ Stage(p) = "weekly" =>
                 /\ UNCHANGED <<raw_files, monthly_reports>>
                 /\ OnlyFlags(daily_reports, daily_reports', "included_in_weekly")
                 /\ FlagsKept(weekly_reports, weekly_reports', "included_in_monthly")
            /\ Stage(p) = "monthly" =>
                 /\ UNCHANGED <<raw_files, daily_reports>>
                 /\ OnlyFlags(weekly_reports, weekly_reports', "included_in_monthly")]_vars

\* A monthly run has recorded its artifact and flagged the weekly artifact it
\* collected, after a weekly run flagged daily artifacts of processed raw files.
C23_Witness ==
    /\ \E p \in Procs :
         /\ Stage(p) = "monthly" /\ run[p].pc \in {"email", "done"} /\ run[p].rows # <<>>
         /\ Recorded(p)
         /\ RowIds(run[p].rows) \subseteq Flagged(weekly_reports, "included_in_monthly")
    /\ Flagged(daily_reports, "included_in_weekly") # {}
    /\ \E f \in CsvIds : Processed(raw_files, f)

\* The ids of a batch that flip a flag of column col: those of a row whose
\* flag is down.
Flipping(tbl, ids, col) == {i \in ids : i <= Len(tbl) /\ tbl[i][col] = 0}

\* C24: after mark_daily_reports_included(ids) or
\* mark_weekly_reports_included(ids) a second application with the same ids
\* changes nothing; a batch of ids that are flagged already or are no row's,
\* the empty batch among them, leaves the ledger as it was.
C24_MarkIdempotent ==
    [][/\ Called("mark_daily_reports_included") =>
            LET ids == call'.args[1]
            IN  /\ mark_daily_reports_included(daily_reports', ids) = daily_reports'
                /\ Flipping(daily_reports, ids, "included_in_weekly") = {} => UNCHANGED ledger
                /\ ids = {} => UNCHANGED ledger
       /\ Called("mark_weekly_reports_included") =>
            LET ids == call'.args[1]
            IN  /\ mark_weekly_reports_included(weekly_reports', ids) = weekly_reports'
                /\ Flipping(weekly_reports, ids, "included_in_monthly") = {} => UNCHANGED ledger
                /\ ids = {} => UNCHANGED ledger]_vars

\* The third call is mark_daily_reports_included({2}) on a table of one row,
\* which the call before it flagged: the batch names no row, and the table
\* is as the second call left it.
C24_Witness ==
    /\ call.n = 3 /\ call.op = "mark_daily_reports_included" /\ call.args = <<{2}>>
    /\ Len(daily_reports) = 1
    /\ daily_reports[1].included_in_weekly = 1

\* A daily run is inside process_file for an item.
MidItem(p) ==
    IsDaily(p) /\ run[p].pc \in {"record_raw", "upload", "mark", "record_daily", "email"}

\* C25: whenever no daily run is inside the processing of an item, after a
\* failure too, every raw_files row with a derived-output reference has a
\* daily_reports row whose source identity is that reference.
C25_ProcessedHasArtifact ==
    (\A p \in Procs : ~MidItem(p)) =>
        \A i \in 1..Len(raw_files) :
            raw_files[i].daily_report_drive_id # None =>
                HasRow(daily_reports, raw_files[i].daily_report_drive_id)

\* A statement of process_file raises in this step of p.
ItemFailure(p) == Mover(p) /\ failures' = failures + 1 /\ MidItem(p)

\* C26: when an item fails after record_raw_file and before the raw file is
\* marked processed (download, read_csv, generation, the local writes, the
\* upload, or the marking itself), its raw_files row is there with a null
\* derived-output reference and raw_file_needs_processing is true; when it
\* fails before that (the trade date, record_raw_file) it needs processing
\* still; and a daily run that comes to a file an earlier run left so
\* attempts it again.
C26_FailedItemStaysEligible ==
    [][\A p \in Procs :
         /\ (ItemFailure(p) /\ run[p].pc \in {"upload", "mark"}) =>
               /\ HasRow(raw_files', ItemOf(p))
               /\ raw_files'[RowOf(raw_files', ItemOf(p))].daily_report_drive_id = None
               /\ raw_file_needs_processing(raw_files', ItemOf(p))
               /\ ItemOf(p) \in run'[p].failed
         /\ (ItemFailure(p) /\ run[p].pc = "record_raw") =>
               raw_file_needs_processing(raw_files', ItemOf(p))
         /\ (/\ IsDaily(p) /\ Mover(p) /\ run[p].pc = "check" /\ run[p].idx <= Len(csv_files)
             /\ ItemOf(p) \notin run[p].tried
             /\ HasRow(raw_files, ItemOf(p)) /\ RawRow(ItemOf(p)).daily_report_drive_id = None) =>
               /\ run'[p].pc = "record_raw"
               /\ ItemOf(p) \in run'[p].tried]_vars

\* After a run in which the upload for the first file failed, a later daily
\* run is about to process that file again: its row is there from the failed
\* attempt, without a reference.
C26_Witness ==
    \E p \in Procs :
        /\ IsDaily(p) /\ run[p].pc = "record_raw" /\ run[p].idx = 1
        /\ run[p].failed = {} /\ failures >= 1
        /\ HasRow(raw_files, ItemOf(p))
        /\ RawRow(ItemOf(p)).daily_report_drive_id = None
        /\ DailyUploadsOf(drive, ItemOf(p)) = {}

\* The ISO (year, week) of a day.
WeekOf(d) == <<isocalendar(d)[1], isocalendar(d)[2]>>

\* The ISO week of the report date of daily_reports row i is over: today is
\* past its Sunday.
WeekOver(i) ==
    LET wk == WeekOf(fromisoformat(daily_reports[i].report_date))
    IN  ToOrdinal(today) > ToOrdinal(fromisocalendar(wk[1], wk[2], 7))

\* C27: the included-in-weekly flag of a daily artifact goes up only in a
\* step of a weekly run, on a day of the ISO week its report date lies in;
\* so the flag of a daily artifact whose week is over (one recorded only
\* after its week among them) is never set.
C27_FlaggedInOwnWeekOnly ==
    [][/\ \A i \in NewlyFlagged(daily_reports, daily_reports', "included_in_weekly") :
            /\ \E p \in Procs : Stage(p) = "weekly" /\ Mover(p)
            /\ WeekOf(fromisoformat(daily_reports'[i].report_date)) = WeekOf(today)
       /\ \A i \in 1..Len(daily_reports) :
            (daily_reports[i].included_in_weekly = 0 /\ WeekOver(i))
                => daily_reports'[i].included_in_weekly = 0]_vars

\* The daily artifact of export.csv, dated 2024-02-20 and recorded in the
\* week after, is unflagged after a weekly run that collected and flagged the
\* artifacts of its own week.
C27_Witness ==
    \E p \in Procs :
        /\ Stage(p) = "weekly" /\ run[p].pc = "done" /\ run[p].status = "ok"
        /\ run[p].rows # <<>>
        /\ RowIds(run[p].rows) \subseteq Flagged(daily_reports, "included_in_weekly")
        /\ \E i \in 1..Len(daily_reports) :
             /\ daily_reports[i].report_date = 20240220
             /\ WeekOver(i)
             /\ daily_reports[i].included_in_weekly = 0

\* C28: whatever the backend answers, _call_gemini raises or returns a text
\* that is not empty.
C28_NeverEmptyText ==
    call.op = "_call_gemini" => (call.outcome # "ok" \/ call.result # <<>>)

====
